---- MODULE Spec2Model ----
(***************************************************************************)
(* Model of the xyzt.ai platform client library (python/xyztai.py, class   *)
(* API) and of the bulk upload script                                      *)
(* (python/uploadAllGZippedCSVFilesInDirectory.py).                        *)
(*                                                                         *)
(* Strings whose characters matter (file names, batch labels) are          *)
(* sequences of one-character strings; opaque strings (dataset ids,        *)
(* tokens, messages) are TLA+ strings.  Every HTTP request a call sends is *)
(* appended, together with the reply the server gave, to a log.            *)
(***************************************************************************)
EXTENDS Integers, Sequences, FiniteSets, TLC

VARIABLES
    \* ---- xyztai.API instance ----
    uname,      \* self.uname
    passwd,     \* self.passwd
    did,        \* self.did
    ctorDid,    \* the dataset_id argument the instance was constructed with
    \* ---- the caller of the API instance ----
    pc,         \* "idle": between calls; "done": a call has just finished
    call,       \* the call that finished last: method and arguments
    result,     \* how that call ended: return value or exception raised
    sent,       \* the HTTP exchanges of that call, in order
    handles,    \* files opened by API._upload and not closed
    prevToken,  \* jwtToken obtained by the latest earlier call, if any
    \* ---- bulk upload script ----
    tree,       \* files under `folder`: set of <<directory, name>>
    dirsLeft,   \* directories os.walk has still to yield
    visited,    \* files the loop has already iterated over
    blog,       \* the HTTP exchanges of the script, in order
    bhandles    \* files opened by upload_file and not closed

vars == <<uname, passwd, did, ctorDid, pc, call, result, sent, handles,
          prevToken, tree, dirsLeft, visited, blog, bhandles>>

apiVars == <<uname, passwd, did, ctorDid, pc, call, result, sent, handles,
             prevToken>>

bulkVars == <<tree, dirsLeft, visited, blog, bhandles>>

-----------------------------------------------------------------------------
(* Bounds and value domains                                                *)

\* longest batch label drawn as an input
MaxLen == 2

\* most files placed in the directory tree of the bulk upload
MaxFiles == 3

\* characters of batch labels
Alphabet == {"a", " ", "_"}

RECURSIVE SeqsUpTo(_, _)
SeqsUpTo(S, n) ==
    IF n = 0 THEN {<<>>}
    ELSE LET shorter == SeqsUpTo(S, n - 1)
         IN shorter \cup {Append(s, c) : s \in shorter, c \in S}

\* a Python Optional[str]: None, or a string
NoneStr == [none |-> TRUE, s |-> <<>>]

Str(s) == [none |-> FALSE, s |-> s]

Batches == {NoneStr} \cup {Str(s) : s \in SeqsUpTo(Alphabet, MaxLen)}

\* file names
N_csv == <<"a", ".", "c", "s", "v">>

N_gz == <<"a", ".", "g", "z">>

N_csvgz == <<"a", ".", "c", "s", "v", ".", "g", "z">>

N_txt == <<"a", ".", "t", "x", "t">>

N_noext == <<"a">>

N_dotcsv == <<".", "c", "s", "v">>

N_dotcsvgz == <<".", "c", "s", "v", ".", "g", "z">>

N_CSV == <<"a", ".", "C", "S", "V">>

FileNames == {N_csv, N_gz, N_csvgz, N_txt, N_noext, N_dotcsv, N_CSV}

\* what the file system does with the path given to _upload
FileStates == {"readable", "missing", "unreadable"}

DatasetIds == {"ds1", "ds2"}

\* a JSON object field that is not there
NoField == "<absent>"

Tokens == {"abc", "xyz"}

Messages == {"bad credentials"}

Statuses == {199, 200, 299, 300, 401}

\* JSON bodies of replies: an error body (message), a token body
\* (jwtToken), or a body with neither field
Bodies ==
    [message : Messages, jwtToken : {NoField}]
        \cup [message : {NoField}, jwtToken : Tokens \cup {NoField}]

\* replies of the server to POST /tokens
TokenReplies ==
    {[status |-> st, message |-> b.message, jwtToken |-> b.jwtToken] :
        st \in Statuses, b \in Bodies}

\* replies of the server to the upload POST, the DELETE and GET /datasets
OpReplies ==
    [status : Statuses,
     message : Messages \cup {NoField},
     jwtToken : {NoField}]

-----------------------------------------------------------------------------
(* Pure helpers of xyztai.py                                               *)

\* faulty variant: only 4xx and 5xx count as errors
IsError_From400(status) == status >= 400

\* r.status < 200 or r.status >= 300
IsError(status) == status < 200 \/ status >= 300

\* one character of str.replace(' ', '_')
ReplaceChar(c) == IF c = " " THEN "_" ELSE c

RECURSIVE Replace_First(_)
\* faulty variant: batch.replace(' ', '_', 1), only the first space is replaced
Replace_First(s) ==
    IF s = <<>> THEN <<>>
    ELSE IF Head(s) = " " THEN <<"_">> \o Tail(s)
    ELSE <<Head(s)>> \o Replace_First(Tail(s))

RECURSIVE Replace(_)
\* batch.replace(' ', '_')
Replace(s) ==
    IF s = <<>> THEN <<>>
    ELSE <<ReplaceChar(Head(s))>> \o Replace(Tail(s))

\* faulty variant: `if batch is None` in place of `if not batch`
Truthy_OnlyNone(b) == ~b.none

\* truth value of an Optional[str]: None and '' are false
Truthy(b) == ~b.none /\ b.s # <<>>

\* str.rfind('.') counted from 1; 0 when there is no dot
LastDot(name) ==
    IF \E i \in DOMAIN name : name[i] = "."
    THEN CHOOSE i \in DOMAIN name :
            name[i] = "." /\ \A j \in DOMAIN name : j > i => name[j] # "."
    ELSE 0

\* Path.suffix: the last dot-separated part of the name, dot included,
\* unless the only dot leads or ends the name
Suffix(name) ==
    LET i == LastDot(name)
    IN IF 1 < i /\ i < Len(name)
       THEN SubSeq(name, i, Len(name))
       ELSE <<>>

NoContentType == "<None>"

\* API._get_content_type up to `if rv == None`
ContentTypeOrNone(name) ==
    IF Suffix(name) = <<".", "c", "s", "v">> THEN "text/csv"
    ELSE IF Suffix(name) = <<".", "g", "z">> THEN "application/x-gzip"
    ELSE NoContentType


-----------------------------------------------------------------------------
(* HTTP requests of xyztai.py                                              *)

\* _apiroot
ApiRoot == "https://api.platform-xyzt.ai/public/api"

NoHeader == "<no header>"

\* _apiroot + '/tokens'
TokensUrl ==
    [root |-> ApiRoot, path |-> "/tokens", did |-> "", datatype |-> "",
     label |-> <<>>, hasQuery |-> FALSE, batch |-> <<>>]

\* faulty variant: the URL is built from the dataset id given at construction
UploadUrl_CtorDid(d, datatype, batch) ==
    [root |-> ApiRoot, path |-> "/datasets/{did}/{datatype}/upload",
     did |-> ctorDid, datatype |-> datatype, label |-> <<>>,
     hasQuery |-> Truthy(batch),
     batch |-> IF Truthy(batch) THEN Replace(batch.s) ELSE <<>>]

\* _apiroot + f'/datasets/{self.did}/{datatype}/upload', and
\* '?batch=' + batch.replace(' ', '_') when batch is true
UploadUrl(d, datatype, batch) ==
    [root |-> ApiRoot, path |-> "/datasets/{did}/{datatype}/upload",
     did |-> d, datatype |-> datatype, label |-> <<>>,
     hasQuery |-> Truthy(batch),
     batch |-> IF Truthy(batch) THEN Replace(batch.s) ELSE <<>>]

\* _apiroot + f'/datasets/{self.did}/batches/' + batch.replace(' ', '_')
DeleteUrl(d, batch) ==
    [root |-> ApiRoot, path |-> "/datasets/{did}/batches/{label}",
     did |-> d, datatype |-> "", label |-> Replace(batch.s),
     hasQuery |-> FALSE, batch |-> <<>>]

\* _apiroot + '/datasets'
DatasetsUrl ==
    [root |-> ApiRoot, path |-> "/datasets", did |-> "", datatype |-> "",
     label |-> <<>>, hasQuery |-> FALSE, batch |-> <<>>]

NoCredentials == [userName |-> "", password |-> ""]

NoFile == [name |-> <<>>, contentType |-> NoContentType]

\* the POST to /tokens of _get_post_headers
TokenRequest ==
    [method |-> "POST", url |-> TokensUrl,
     headers |-> [Authorization |-> <<>>, Accept |-> "application/json",
                  ContentType |-> "application/json"],
     json |-> [userName |-> uname, password |-> passwd],
     file |-> NoFile]

\* f'Bearer {token}'
Bearer(token) == <<"Bearer ", token>>

\* faulty variant: the token of an earlier call is kept and sent again
PostHeaders_Stale(token) ==
    [Authorization |-> Bearer(IF prevToken # NoField THEN prevToken ELSE token),
     Accept |-> "application/json", ContentType |-> NoHeader]

\* the dictionary _get_post_headers returns
PostHeaders(token) ==
    [Authorization |-> Bearer(token), Accept |-> "application/json",
     ContentType |-> NoHeader]

NoHeaders == [Authorization |-> <<>>, Accept |-> NoHeader, ContentType |-> NoHeader]

\* self._http.request(method, url, headers=headers[, fields={"file": ...}])
OpRequest(method, url, headers, file) ==
    [method |-> method, url |-> url, headers |-> headers,
     json |-> NoCredentials, file |-> file]

Exchange(req, reply) == [req |-> req, reply |-> reply]

-----------------------------------------------------------------------------
(* How a call ends                                                         *)

Returned(value) ==
    [kind |-> "return", what |-> "", status |-> 0, errmsg |-> "", value |-> value]

\* an exception that carries no HTTP status
Raised(kind, what) ==
    [kind |-> kind, what |-> what, status |-> 0, errmsg |-> "", value |-> ""]

\* urllib3.exceptions.HTTPError(f'{what} failed with status {status}: {errmsg}')
HTTPError(what, status, errmsg) ==
    [kind |-> "HTTPError", what |-> what, status |-> status,
     errmsg |-> errmsg, value |-> ""]

\* errmsg = json.loads(...)['message'] followed by raise HTTPError(message)
ErrorOf(what, reply) ==
    IF reply.message = NoField
    THEN Raised("KeyError", "message")
    ELSE HTTPError(what, reply.status, reply.message)

\* names bound at module level in xyztai.py
ModuleGlobals == {"urllib3", "json", "Path", "Dict", "List", "_apiroot", "API"}

\* names bound in retrieve_datasets when its error message is formatted
RetrieveLocals == {"self", "url", "headers", "r", "errmsg"}

\* names the f-string of retrieve_datasets' error message reads
RetrieveMessageNames == {"batch", "r", "errmsg"}

\* the error path of retrieve_datasets
RetrieveErrorOf(reply) ==
    IF reply.message = NoField
    THEN Raised("KeyError", "message")
    ELSE IF RetrieveMessageNames \subseteq (RetrieveLocals \cup ModuleGlobals)
    THEN HTTPError("Retrieval of data sets", reply.status, reply.message)
    ELSE Raised("NameError", "batch")

\* API._get_post_headers, given the server's reply to the token request
GetPostHeaders(reply) ==
    IF IsError(reply.status)
    THEN [raised |-> TRUE, exc |-> ErrorOf("Request for auth token", reply),
          headers |-> NoHeaders]
    ELSE IF reply.jwtToken = NoField
    THEN [raised |-> TRUE, exc |-> Raised("KeyError", "jwtToken"),
          headers |-> NoHeaders]
    ELSE [raised |-> FALSE, exc |-> Returned(""),
          headers |-> PostHeaders(reply.jwtToken)]

\* the exchanges _get_post_headers adds to the log
TokenExchanges(reply) == <<Exchange(TokenRequest, reply)>>

Out(s, r, h) == [sent |-> s, result |-> r, handles |-> h]

\* file.open(mode='rb')
Open(h, name) == h \cup {name}

\* leaving the with block, normally or by an exception
Close(h, name) == h \ {name}

\* API._upload
Upload(datatype, file, fstate, batch, treply, oreply) ==
    IF fstate = "missing"
    THEN Out(<<>>, Raised("OSError", "open"), handles)
    ELSE
    LET closed == Close(Open(handles, file), file)
    IN  IF fstate = "unreadable"
        THEN Out(<<>>, Raised("OSError", "read"), closed)
        ELSE
        LET auth == GetPostHeaders(treply)
            s1 == TokenExchanges(treply)
        IN  IF auth.raised
            THEN Out(s1, auth.exc, closed)
            ELSE
            LET url == UploadUrl(did, datatype, batch)
                ct == ContentTypeOrNone(file)
            IN  IF ct = NoContentType
                THEN Out(s1, Raised("ValueError", "Unsupported file type"), closed)
                ELSE
                LET post == OpRequest("POST", url, auth.headers,
                                      [name |-> file, contentType |-> ct])
                    s2 == Append(s1, Exchange(post, oreply))
                IN  IF IsError(oreply.status)
                    THEN Out(s2, ErrorOf("Upload of file", oreply), closed)
                    ELSE Out(s2, Returned("None"), closed)

\* API.delete_batch
Delete(batch, treply, oreply) ==
    IF ~Truthy(batch)
    THEN Out(<<>>, Raised("ValueError", "batch cannot be null"), handles)
    ELSE
    LET url == DeleteUrl(did, batch)
        auth == GetPostHeaders(treply)
        s1 == TokenExchanges(treply)
    IN  IF auth.raised
        THEN Out(s1, auth.exc, handles)
        ELSE
        LET s2 == Append(s1, Exchange(OpRequest("DELETE", url, auth.headers, NoFile),
                                      oreply))
        IN  IF IsError(oreply.status)
            THEN Out(s2, ErrorOf("Deletion of batch", oreply), handles)
            ELSE Out(s2, Returned("None"), handles)

\* API.retrieve_datasets
Retrieve(treply, oreply) ==
    LET auth == GetPostHeaders(treply)
        s1 == TokenExchanges(treply)
    IN  IF auth.raised
        THEN Out(s1, auth.exc, handles)
        ELSE
        LET s2 == Append(s1, Exchange(OpRequest("GET", DatasetsUrl, auth.headers,
                                                NoFile), oreply))
        IN  IF IsError(oreply.status)
            THEN Out(s2, RetrieveErrorOf(oreply), handles)
            ELSE Out(s2, Returned("json.loads(r.data)"), handles)

-----------------------------------------------------------------------------
(* The API instance and its caller                                         *)

NoCall == [op |-> "", file |-> <<>>, fstate |-> "", batch |-> NoneStr]

NoResult == Raised("", "")

UploadOps == {"upload_records", "upload_metadata"}

\* xyztai.API(uname, password, dataset_id); the script is not running
Init ==
    /\ uname = "apiuser-uuid@company.com"
    /\ passwd = "api-password"
    /\ did \in DatasetIds
    /\ ctorDid = did
    /\ pc = "idle"
    /\ call = NoCall
    /\ result = NoResult
    /\ sent = <<>>
    /\ handles = {}
    /\ prevToken = NoField
    /\ tree = {}
    /\ dirsLeft = <<>>
    /\ visited = {}
    /\ blog = <<>>
    /\ bhandles = {}

\* a call runs to its end
Finish(c, out) ==
    /\ pc' = "done"
    /\ call' = c
    /\ result' = out.result
    /\ sent' = out.sent
    /\ handles' = out.handles
    /\ UNCHANGED <<uname, passwd, did, ctorDid, prevToken>>
    /\ UNCHANGED bulkVars

\* xyztapi.upload_records(file, batch)
UploadRecords ==
    /\ pc = "idle"
    /\ \E file \in FileNames, fstate \in FileStates, batch \in Batches,
          treply \in TokenReplies, oreply \in OpReplies :
          Finish([op |-> "upload_records", file |-> file, fstate |-> fstate,
                  batch |-> batch],
                 Upload("data", file, fstate, batch, treply, oreply))

\* xyztapi.upload_metadata(file, batch)
UploadMetadata ==
    /\ pc = "idle"
    /\ \E file \in FileNames, fstate \in FileStates, batch \in Batches,
          treply \in TokenReplies, oreply \in OpReplies :
          Finish([op |-> "upload_metadata", file |-> file, fstate |-> fstate,
                  batch |-> batch],
                 Upload("metadata", file, fstate, batch, treply, oreply))

\* xyztapi.delete_batch(batch)
DeleteBatch ==
    /\ pc = "idle"
    /\ \E batch \in Batches, treply \in TokenReplies, oreply \in OpReplies :
          Finish([op |-> "delete_batch", file |-> <<>>, fstate |-> "",
                  batch |-> batch],
                 Delete(batch, treply, oreply))

\* xyztapi.retrieve_datasets()
RetrieveDatasets ==
    /\ pc = "idle"
    /\ \E treply \in TokenReplies, oreply \in OpReplies :
          Finish([op |-> "retrieve_datasets", file |-> <<>>, fstate |-> "",
                  batch |-> NoneStr],
                 Retrieve(treply, oreply))

\* xyztapi.did = 'new-dataset-id', between two calls
SetDid ==
    /\ pc = "idle"
    /\ \E d \in DatasetIds \ {did} : did' = d
    /\ UNCHANGED <<uname, passwd, ctorDid, pc, call, result, sent, handles,
                   prevToken>>
    /\ UNCHANGED bulkVars

\* the token the finished call obtained, NoField when it obtained none
TokenObtained ==
    IF sent # <<>> /\ ~IsError(sent[1].reply.status)
    THEN sent[1].reply.jwtToken
    ELSE NoField

\* the caller takes the outcome of the call (return value or exception, as
\* in the try/except of the module's example) and goes on
Continue ==
    /\ pc = "done"
    /\ pc' = "idle"
    /\ prevToken' = IF TokenObtained # NoField THEN TokenObtained ELSE prevToken
    /\ call' = NoCall
    /\ result' = NoResult
    /\ sent' = <<>>
    /\ UNCHANGED <<uname, passwd, did, ctorDid, handles>>
    /\ UNCHANGED bulkVars

Next ==
    \/ UploadRecords
    \/ UploadMetadata
    \/ DeleteBatch
    \/ RetrieveDatasets
    \/ SetDid
    \/ Continue

Spec == Init /\ [][Next]_vars

-----------------------------------------------------------------------------
(* The bulk upload script                                                  *)

\* directories under `folder`, in the order os.walk(folder, topdown=False)
\* yields them: a directory after its subdirectories
WalkOrder == <<"folder/sub", "folder">>

BulkNames == {N_csvgz, N_dotcsvgz, N_gz, N_csv}

Paths == {<<WalkOrder[i], n>> : i \in DOMAIN WalkOrder, n \in BulkNames}

Trees == {t \in SUBSET Paths : Cardinality(t) <= MaxFiles}

\* str.endswith
EndsWith(name, suffix) ==
    /\ Len(name) >= Len(suffix)
    /\ SubSeq(name, Len(name) - Len(suffix) + 1, Len(name)) = suffix

\* faulty variant: the suffix filter keeps every gzipped file
Matches_AnyGz(name) == EndsWith(name, <<".", "g", "z">>)

\* file.endswith('.csv.gz')
Matches(name) == EndsWith(name, <<".", "c", "s", "v", ".", "g", "z">>)

\* Python's None, and JSON's null
PyNone == "<None>"

\* statuses the script tells apart: 200, and anything else
BulkStatuses == {200, 401}

\* replies to the script's POST /tokens: 200 with a body whose jwtToken is
\* a string, missing, or null; or another status, 2xx or not
BulkTokenReplies ==
    [status : {200}, jwtToken : {"abc", NoField, PyNone}]
        \cup [status : {201} \cup (BulkStatuses \ {200}), jwtToken : {NoField}]

\* replies to the script's upload POST
BulkUploadReplies == [status : BulkStatuses, jwtToken : {NoField}]

\* body.get("jwtToken", "")
BodyGet(reply) == IF reply.jwtToken = NoField THEN "" ELSE reply.jwtToken

\* faulty variant: a refused token request yields the empty token, not None
RequestToken_Empty(reply) ==
    IF reply.status = 200 THEN BodyGet(reply) ELSE ""

\* what request_token returns
RequestToken(reply) ==
    IF reply.status = 200 THEN BodyGet(reply) ELSE PyNone

\* requests.post(f"{url}/tokens", json=payload), made while `path` is the
\* file of the loop
BulkTokenExchange(path, reply) ==
    [kind |-> "token", path |-> path,
     url |-> [root |-> ApiRoot, path |-> "/tokens", did |-> ""],
     Authorization |-> <<>>,
     json |-> [userName |-> uname, password |-> passwd],
     file |-> NoFile,
     reply |-> reply]

\* requests.post(f"{url}/datasets/{dataKey}/data/upload", files=files,
\* headers=headers)
BulkUploadExchange(path, token, reply) ==
    [kind |-> "upload", path |-> path,
     url |-> [root |-> ApiRoot, path |-> "/datasets/{dataKey}/data/upload",
              did |-> did],
     Authorization |-> Bearer(token),
     json |-> NoCredentials,
     file |-> [name |-> path[2], contentType |-> "application/x-gzip"],
     reply |-> reply]

\* the files upload_file has open after it returned: it opens file_path and
\* never closes it, so the handle is closed only if the runtime finalises
\* the file object at the return (released)
UploadFileHandles(h, path, released) ==
    IF released THEN h ELSE h \cup {path}

\* the files of the directory os.walk is at which the loop has not reached
Pending == {p \in tree \ visited : dirsLeft # <<>> /\ p[1] = Head(dirsLeft)}

\* the script starts: constants of lines 17-21 and a directory tree
BulkInit ==
    /\ uname = "put_here_your_api_user_name"
    /\ passwd = "put_here_your_api_user_password"
    /\ did = "put_here_the_data_set_id"
    /\ ctorDid = did
    /\ pc = "script"
    /\ call = NoCall
    /\ result = NoResult
    /\ sent = <<>>
    /\ handles = {}
    /\ prevToken = NoField
    /\ tree \in Trees
    /\ dirsLeft = WalkOrder
    /\ visited = {}
    /\ blog = <<>>
    /\ bhandles = {}

\* one iteration of `for file in files` over a file that does not match
SkipFile ==
    /\ \E p \in Pending :
          /\ ~Matches(p[2])
          /\ visited' = visited \cup {p}
    /\ UNCHANGED <<tree, dirsLeft, blog, bhandles>>
    /\ UNCHANGED apiVars

\* one iteration over a matching file: request_token, then upload_file
\* unless request_token returned None
ProcessFile ==
    /\ \E p \in Pending, treply \in BulkTokenReplies,
          ureply \in BulkUploadReplies, released \in BOOLEAN :
          /\ Matches(p[2])
          /\ visited' = visited \cup {p}
          /\ LET jwt_token == RequestToken(treply)
                 b1 == Append(blog, BulkTokenExchange(p, treply))
             IN  IF jwt_token # PyNone
                 THEN /\ blog' = Append(b1, BulkUploadExchange(p, jwt_token, ureply))
                      /\ bhandles' = UploadFileHandles(bhandles, p, released)
                 ELSE /\ blog' = b1
                      /\ bhandles' = bhandles
    /\ UNCHANGED <<tree, dirsLeft>>
    /\ UNCHANGED apiVars

\* the files of a directory are exhausted: os.walk yields the next one
NextDir ==
    /\ dirsLeft # <<>>
    /\ Pending = {}
    /\ dirsLeft' = Tail(dirsLeft)
    /\ UNCHANGED <<tree, visited, blog, bhandles>>
    /\ UNCHANGED apiVars

\* os.walk is exhausted: the script has run to its end
BulkDone == dirsLeft = <<>>

BulkNext ==
    \/ SkipFile
    \/ ProcessFile
    \/ NextDir

BulkSpec == BulkInit /\ [][BulkNext]_vars

\* the loop is sequential and every request is answered: a step that can
\* be taken is taken
BulkLiveSpec == BulkSpec /\ WF_vars(BulkNext)

-----------------------------------------------------------------------------
(* Claims about the API class (checked under Spec)                         *)

\* the exchanges of the finished call that are not token requests
OpIndices == {i \in DOMAIN sent : sent[i].req.url.path # "/tokens"}

TokenIndices == {i \in DOMAIN sent : sent[i].req.url.path = "/tokens"}

Outside2xx(status) == status \notin 200..299

\* C1: upload_records and upload_metadata called with a file whose
\* extension is neither .csv nor .gz fail with ValueError, and no request
\* at all (no token request, no upload POST) has been sent when they fail.
C1_NoRequestBeforeValueError ==
    (/\ pc = "done"
     /\ call.op \in UploadOps
     /\ call.fstate = "readable"
     /\ Suffix(call.file) \notin {<<".", "c", "s", "v">>, <<".", "g", "z">>})
    => (result.kind = "ValueError" /\ sent = <<>>)

\* C2: when GET /datasets of retrieve_datasets is answered with a status
\* outside 200..299 (the token request having succeeded), the call raises
\* urllib3's HTTPError carrying the status and the server's message field,
\* and no other kind of error.
C2_RetrievalErrorIsHTTPError ==
    (/\ pc = "done"
     /\ call.op = "retrieve_datasets"
     /\ Len(sent) = 2
     /\ Outside2xx(sent[2].reply.status)
     /\ sent[2].reply.message # NoField)
    => (/\ result.kind = "HTTPError"
        /\ result.status = sent[2].reply.status
        /\ result.errmsg = sent[2].reply.message)

\* C3: delete_batch called with '' or with None raises ValueError and
\* sends no request, neither the token request nor the DELETE.
C3_EmptyBatchRejected ==
    (/\ pc = "done"
     /\ call.op = "delete_batch"
     /\ (call.batch.none \/ call.batch.s = <<>>))
    => (result.kind = "ValueError" /\ sent = <<>>)

C3_Witness ==
    /\ pc = "done"
    /\ call.op = "delete_batch"
    /\ ~call.batch.none
    /\ call.batch.s = <<>>
    /\ result.kind = "ValueError"

\* C4: a call that reaches the network sends exactly one token request,
\* first; its own request, if it sends one, comes right after it and carries
\* Authorization 'Bearer ' + the jwtToken that very token request returned,
\* never the token an earlier call obtained.
C4_FreshTokenPerOperation ==
    pc = "done" =>
        /\ Len(sent) <= 2
        /\ sent # <<>> => TokenIndices = {1}
        /\ \A i \in OpIndices :
              /\ i = 2
              /\ sent[1].req.json = [userName |-> uname, password |-> passwd]
              /\ ~Outside2xx(sent[1].reply.status)
              /\ sent[i].req.headers.Authorization
                    = <<"Bearer ", sent[1].reply.jwtToken>>
              /\ prevToken # sent[1].reply.jwtToken
                    => sent[i].req.headers.Authorization # <<"Bearer ", prevToken>>

C4_Witness ==
    /\ pc = "done"
    /\ Len(sent) = 2
    /\ prevToken = "abc"
    /\ sent[1].reply.jwtToken = "xyz"
    /\ sent[2].req.headers.Authorization = <<"Bearer ", "xyz">>

\* C5: in every operation, a token request answered with a status outside
\* 200..299 (and a message field) makes the call raise the authentication
\* HTTPError with that status and that message; the token request is not
\* repeated and the operation's own request is never sent.
C5_AuthFailureStopsOperation ==
    (/\ pc = "done"
     /\ sent # <<>>
     /\ Outside2xx(sent[1].reply.status)
     /\ sent[1].reply.message # NoField)
    => (/\ result = [kind |-> "HTTPError", what |-> "Request for auth token",
                     status |-> sent[1].reply.status,
                     errmsg |-> sent[1].reply.message, value |-> ""]
        /\ Len(sent) = 1
        /\ OpIndices = {})

C5_Witness ==
    /\ pc = "done"
    /\ call.op = "upload_metadata"
    /\ Len(sent) = 1
    /\ sent[1].reply.status = 401
    /\ sent[1].reply.message = "bad credentials"
    /\ result.kind = "HTTPError"
    /\ result.status = 401

\* the batch label as it stands in the URL of the operation's request
UrlLabel(url) == IF url.hasQuery THEN url.batch ELSE url.label

HasSpace(s) == \E i \in DOMAIN s : s[i] = " "

\* C8: after self.did has been reassigned between calls, the URL of every
\* upload_records, upload_metadata and delete_batch request holds the did
\* current at the time of the call; reassigning did changes nothing else of
\* the client (the credentials stay as constructed).
C8_DatasetIdTakesEffect ==
    /\ [](pc = "done" =>
            \A i \in OpIndices :
                call.op \in UploadOps \cup {"delete_batch"}
                    => sent[i].req.url.did = did)
    /\ [][did' # did =>
            /\ uname' = uname
            /\ passwd' = passwd
            /\ ctorDid' = ctorDid
            /\ handles' = handles]_vars

C8_Witness ==
    /\ pc = "done"
    /\ did # ctorDid
    /\ call.op = "delete_batch"
    /\ Len(sent) = 2
    /\ sent[2].req.url.did = did

\* C9: replacing spaces by underscores in the batch label is idempotent:
\* the label in a request URL has no space, normalising it again leaves it
\* unchanged, and the normalised label given as the batch yields the same
\* URL as the label itself.
C9_NormalizationIdempotent ==
    (pc = "done" /\ OpIndices # {} /\ Truthy(call.batch)) =>
        LET url == sent[2].req.url
            lbl == UrlLabel(url)
        IN  /\ ~HasSpace(lbl)
            /\ Len(lbl) = Len(call.batch.s)
            /\ Replace(lbl) = lbl
            /\ call.op = "upload_records" => UploadUrl(did, "data", Str(lbl)) = url
            /\ call.op = "upload_metadata"
                  => UploadUrl(did, "metadata", Str(lbl)) = url
            /\ call.op = "delete_batch" => DeleteUrl(did, Str(lbl)) = url

C9_Witness ==
    /\ pc = "done"
    /\ call.op = "upload_records"
    /\ call.batch.s = <<" ", " ">>
    /\ Len(sent) = 2
    /\ sent[2].req.url.batch = <<"_", "_">>

-----------------------------------------------------------------------------
(* Claims about the bulk upload script (checked under BulkSpec)            *)

\* the requests of kind k the script made while p was the file of the loop
Made(k, p) == {i \in DOMAIN blog : blog[i].kind = k /\ blog[i].path = p}

Uploads == {i \in DOMAIN blog : blog[i].kind = "upload"}

\* a name ending in '.csv.gz'
IsCsvGz(name) ==
    /\ Len(name) >= 7
    /\ SubSeq(name, Len(name) - 6, Len(name))
          = <<".", "c", "s", "v", ".", "g", "z">>

\* the request was answered 200 and, for a token request, with a token
Succeeded(x) ==
    /\ x.reply.status = 200
    /\ x.kind = "token" => x.reply.jwtToken # PyNone

AllSucceeded == \A i \in DOMAIN blog : Succeeded(blog[i])

\* C6: when every token request and every upload request succeeds, a run
\* of the script uploads exactly the files whose name ends in '.csv.gz',
\* each once and no other file ever, and every upload request comes right
\* after the one token request made for its file.
C6_UploadsExactlyMatchingFiles ==
    /\ \A i \in Uploads :
          LET p == blog[i].path
          IN  /\ p \in tree
              /\ IsCsvGz(p[2])
              /\ blog[i].file.name = p[2]
              /\ Made("upload", p) = {i}
              /\ Made("token", p) = {i - 1}
    /\ (BulkDone /\ AllSucceeded)
          => {blog[i].path : i \in Uploads} = {p \in tree : IsCsvGz(p[2])}

C6_Witness ==
    /\ BulkDone
    /\ AllSucceeded
    /\ Cardinality({p \in tree : IsCsvGz(p[2])}) = 2
    /\ Cardinality({p \in tree : ~IsCsvGz(p[2])}) = 1
    /\ Cardinality(Uploads) = 2
    /\ Len(blog) = 4

\* the token request made for p was refused, or brought no token
TokenFailed(p) == \E i \in Made("token", p) : ~Succeeded(blog[i])

\* what holds of the requests at every moment of a run
C7_OncePerFile ==
    /\ \A p \in tree :
          /\ Cardinality(Made("token", p)) <= 1
          /\ Cardinality(Made("upload", p)) <= 1
          /\ TokenFailed(p) => Made("upload", p) = {}
          /\ (p \in visited /\ IsCsvGz(p[2])) => Cardinality(Made("token", p)) = 1
          /\ ~IsCsvGz(p[2]) => Made("token", p) = {}
    /\ BulkDone => visited = tree

C10_HandlesReleased == handles = {} /\ bhandles = {}

=============================================================================
